---------------------------- MODULE Spec2Model ----------------------------
(***************************************************************************)
(* A model of process_therapy_conversations.py: the greedy chunker         *)
(* (split_into_chunks), the conversation-tree traversal                    *)
(* (extract_messages_from_mapping), the whitespace normalizer              *)
(* (normalize_whitespace), the workflow of main and the condenser of one   *)
(* conversation (clean_conversation).                                      *)
(*                                                                         *)
(* Each component has its own specification (SpecPack, SpecTree, SpecNorm, *)
(* SpecMain, SpecClean); the variables of the other components stay at     *)
(* their idle values under it.                                             *)
(***************************************************************************)
EXTENDS Integers, Sequences, FiniteSets, TLC

VARIABLES
    \* split_into_chunks
    data,             \* the records handed to the chunker
    tokens_per_chunk, \* the capacity
    chunks,           \* closed groups
    current_chunk,    \* the open group
    current_size,     \* accumulated cost of the open group
    pos,              \* index of the next record of the for loop
    pcPack,           \* "idle" | "loop" | "done"
    \* extract_messages_from_mapping
    mapping,          \* node id -> node, over the ids the mapping holds
    root_node_id,     \* the root argument, NoneVal when not supplied
    messages,         \* the kept messages so far
    visited,          \* the visited set
    stack,            \* the active calls of traverse: [node, i], i the next child index
    callArg,          \* the argument of the call of traverse being entered
    pcTree,           \* "idle" | "start" | "call" | "loop" | "done"
    order,            \* history: the node ids in the order they were added to visited
    \* normalize_whitespace
    normData,         \* the conversations, each [m |-> <<role, content>> pairs]
    passes,           \* how many times normalize_whitespace was applied
    \* main
    pcMain,           \* "idle" | "start" | "load" | the stage to run next | "exit"
    input_file,       \* the input file on disk: [state, convs]
    rewritten,        \* whether the file was changed on disk during the run
    original_size,    \* os.path.getsize(input_file)
    all_conversations,\* what main loaded
    marker,           \* [type, value] as identify_marker returned it
    filter_all,       \* what filter_conversations loaded
    therapy_conversations, \* what filter_conversations returned
    final_data,       \* what apply_minification_techniques returned
    final_size,       \* the size of the minified file
    files,            \* the output files written
    ran,              \* history: the stages entered, in order
    warned,           \* whether the warning about the reduction target was printed
    cause,            \* history: the branch that called sys.exit(1), NoneVal if none
    exit_code,        \* the exit code (0 unless sys.exit(1) was called)
    \* clean_conversation
    convIn,           \* conv, the conversation handed in: [create_time, title, mapping]
    utc_offset,       \* the offset of the process's local time zone, in seconds
    cleaned,          \* the dictionary returned, NoneVal before the call
    pcClean           \* "idle" | "start" | "done"

packVars == <<data, tokens_per_chunk, chunks, current_chunk, current_size, pos, pcPack>>

treeVars == <<mapping, root_node_id, messages, visited, stack, callArg, pcTree, order>>

normVars == <<normData, passes>>

mainVars == <<pcMain, input_file, rewritten, original_size, all_conversations, marker,
              filter_all, therapy_conversations, final_data, final_size, files, ran,
              warned, cause, exit_code>>

cleanVars == <<convIn, utc_offset, cleaned, pcClean>>

vars == <<packVars, treeVars, normVars, mainVars, cleanVars>>

\* python's None
NoneVal == "None"

(***************************************************************************)
(* Generic helpers                                                         *)
(***************************************************************************)
RECURSIVE SeqsUpTo(_, _)
\* all sequences over S of length at most n
SeqsUpTo(S, n) ==
    IF n = 0 THEN {<<>>}
    ELSE LET shorter == SeqsUpTo(S, n - 1)
         IN  shorter \cup {Append(s, x) : s \in {t \in shorter : Len(t) = n - 1}, x \in S}

RECURSIVE Flatten(_)
\* in-order concatenation of a sequence of sequences
Flatten(ss) == IF ss = <<>> THEN <<>> ELSE Head(ss) \o Flatten(Tail(ss))

(***************************************************************************)
(* split_into_chunks                                                       *)
(***************************************************************************)
\* bound: number of records handed to the chunker
MaxRecs == 3

\* the default capacity main passes
TokensPerChunk == 25000

\* serialized lengths (characters) a record may have: costs 0, 5, 10, 15, 100
CharSizes == {2, 20, 40, 60, 400}

\* capacities tried
Capacities == {1, 15, TokensPerChunk}

\* conv_tokens = len(json.dumps(conv)) // 4
ConvTokens(conv) == conv.chars \div 4

RECURSIVE Cost(_)
\* accumulated cost of a group
Cost(group) == IF group = <<>> THEN 0 ELSE ConvTokens(Head(group)) + Cost(Tail(group))

\* mutant: the non-empty guard is lost
ShouldCloseNoGuard(size, conv_tokens, cap, chunk) == size + conv_tokens > cap

\* mutant: the comparison is not strict
ShouldCloseNotStrict(size, conv_tokens, cap, chunk) ==
    size + conv_tokens >= cap /\ chunk # <<>>

\* if current_size + conv_tokens > tokens_per_chunk and current_chunk
ShouldClose(size, conv_tokens, cap, chunk) ==
    size + conv_tokens > cap /\ chunk # <<>>

\* one iteration of the for loop over a state [chunks, current_chunk, current_size]
ChunkStep(st, conv, cap) ==
    LET conv_tokens == ConvTokens(conv)
    IN  IF ShouldClose(st.current_size, conv_tokens, cap, st.current_chunk)
        THEN [chunks        |-> Append(st.chunks, st.current_chunk),
              current_chunk |-> <<conv>>,
              current_size  |-> conv_tokens]
        ELSE [chunks        |-> st.chunks,
              current_chunk |-> Append(st.current_chunk, conv),
              current_size  |-> st.current_size + conv_tokens]

\* mutant: the open group is never closed after the loop
FinalChunksDropped(cs, chunk) == cs

\* if current_chunk: chunks.append(current_chunk)
FinalChunks(cs, chunk) == IF chunk # <<>> THEN Append(cs, chunk) ELSE cs

RECURSIVE ChunkLoop(_, _, _)
\* the whole for loop, from state st over the records rest
ChunkLoop(st, rest, cap) ==
    IF rest = <<>> THEN st ELSE ChunkLoop(ChunkStep(st, Head(rest), cap), Tail(rest), cap)

\* the groups split_into_chunks writes for records recs under capacity cap
SplitIntoChunks(recs, cap) ==
    LET st == ChunkLoop([chunks |-> <<>>, current_chunk |-> <<>>, current_size |-> 0],
                        recs, cap)
    IN  FinalChunks(st.chunks, st.current_chunk)

\* the record sequences tried: record i carries its position as identity
PackInputs ==
    {[i \in 1..Len(sizes) |-> [id |-> i, chars |-> sizes[i]]] :
        sizes \in SeqsUpTo(CharSizes, MaxRecs)}

PackIdle ==
    /\ data = <<>>
    /\ tokens_per_chunk = TokensPerChunk
    /\ chunks = <<>>
    /\ current_chunk = <<>>
    /\ current_size = 0
    /\ pos = 1
    /\ pcPack = "idle"

InitPack ==
    /\ data \in PackInputs
    /\ tokens_per_chunk \in Capacities
    /\ chunks = <<>>
    /\ current_chunk = <<>>
    /\ current_size = 0
    /\ pos = 1
    /\ pcPack = "loop"

\* for conv in data: ...
ChunkIter ==
    /\ pcPack = "loop"
    /\ pos <= Len(data)
    /\ LET st == ChunkStep([chunks |-> chunks, current_chunk |-> current_chunk,
                            current_size |-> current_size], data[pos], tokens_per_chunk)
       IN  /\ chunks' = st.chunks
           /\ current_chunk' = st.current_chunk
           /\ current_size' = st.current_size
    /\ pos' = pos + 1
    /\ UNCHANGED <<data, tokens_per_chunk, pcPack>>
    /\ UNCHANGED <<treeVars, normVars, mainVars, cleanVars>>

\* the loop is over: add the final chunk
ChunkFinal ==
    /\ pcPack = "loop"
    /\ pos > Len(data)
    /\ chunks' = FinalChunks(chunks, current_chunk)
    /\ pcPack' = "done"
    /\ UNCHANGED <<data, tokens_per_chunk, current_chunk, current_size, pos>>
    /\ UNCHANGED <<treeVars, normVars, mainVars, cleanVars>>

NextPack == ChunkIter \/ ChunkFinal

(***************************************************************************)
(* Text: a string is a sequence of characters                              *)
(***************************************************************************)
\* python's str.strip() removes these
IsSpace(c) == c \in {" ", "\n", "\t"}

RECURSIVE LStrip(_)
LStrip(s) == IF s # <<>> /\ IsSpace(Head(s)) THEN LStrip(Tail(s)) ELSE s

RECURSIVE RStrip(_)
RStrip(s) ==
    IF s # <<>> /\ IsSpace(s[Len(s)]) THEN RStrip(SubSeq(s, 1, Len(s) - 1)) ELSE s

\* str.strip()
Strip(s) == RStrip(LStrip(s))

(***************************************************************************)
(* extract_messages_from_mapping                                           *)
(***************************************************************************)
\* bound: total number of entries of all children lists of a mapping
MaxEdges == 3

\* the node ids in mapping-iteration order; a mapping holds a prefix of them
NodeOrder == <<"a", "b", "c", "d">>

\* an id no mapping holds
Dangling == "x"

\* the ids a children list may name; a mapping of fewer nodes does not hold them all
ChildIds == {NodeOrder[i] : i \in 1..Len(NodeOrder)}

\* a part that is a string
StrPart(t) == [isstr |-> TRUE, text |-> t, truthy |-> t # <<>>]

\* a part that is a falsy non-string value (null, an empty structure); text is str() of it
EmptyObj == [isstr |-> FALSE, text |-> <<"{", "}">>, truthy |-> FALSE]

\* a part that is a non-empty structure; text is str() of it
ImageObj == [isstr |-> FALSE, text |-> <<"{", "i", "}">>, truthy |-> TRUE]

\* the parts lists tried
PartsSamples ==
    { <<>>,
      <<StrPart(<<>>)>>,
      <<StrPart(<<" ", "\n">>)>>,
      <<StrPart(<<"h">>)>>,
      <<StrPart(<<" ", "h", " ", "i", "\n">>)>>,
      <<StrPart(<<"h">>), StrPart(<<"w">>)>>,
      <<StrPart(<<" ">>), StrPart(<<"w">>)>>,
      <<EmptyObj, StrPart(<<"w">>)>>,
      <<ImageObj>> }

Roles == {"user", "assistant", "system", "tool", "critic", NoneVal}

SpecialKeys == {"user_profile", "user_instructions"}

\* the message payloads tried
MsgPayloads ==
    [role : Roles, hidden : BOOLEAN, keys : SUBSET SpecialKeys, parts : PartsSamples]

\* a plain user or assistant message whose text names its node
PlainMsg(role, id) ==
    [role |-> role, hidden |-> FALSE, keys |-> {}, parts |-> <<StrPart(<<id>>)>>]

\* a hidden message
HiddenMsg(id) ==
    [role |-> "user", hidden |-> TRUE, keys |-> {}, parts |-> <<StrPart(<<id>>)>>]

\* not first_part or (isinstance(first_part, str) and first_part.strip() == '')
EmptyFirst(first_part) ==
    \/ ~first_part.truthy
    \/ (first_part.isstr /\ Strip(first_part.text) = <<>>)

\* mutant: every part is joined instead of the first one being taken
KeptTextAllParts(parts) == Strip(Flatten([i \in 1..Len(parts) |-> parts[i].text]))

\* content_text = first_part if isinstance(first_part, str) else str(first_part); .strip()
KeptText(parts) == Strip(parts[1].text)

\* the path a node takes through the body of traverse, in the order of its tests;
\* m is node.get('message'): <<>> when the node has none, <<msg>> otherwise
Branch(m) ==
    IF m = <<>> THEN "no_message"
    ELSE LET msg == m[1] IN
    IF msg.hidden THEN "hidden"
    ELSE IF msg.role = "tool" THEN "tool"
    ELSE IF msg.role = "system" /\ (msg.parts = <<>> \/ EmptyFirst(msg.parts[1]))
         THEN "system_empty"
    ELSE IF msg.keys # {} THEN "profile"
    ELSE IF msg.parts = <<>> THEN "no_parts"
    ELSE IF EmptyFirst(msg.parts[1]) THEN "blank"
    ELSE IF msg.role \in {"user", "assistant"} /\ KeptText(msg.parts) # <<>> THEN "keep"
    ELSE "other"

\* messages.append({'r': 'u' if role == 'user' else 'a', 'c': content_text.strip()}):
\* what a node appends to messages, nothing or one message
KeptOf(m) ==
    IF Branch(m) = "keep"
    THEN <<[r |-> IF m[1].role = "user" THEN "u" ELSE "a", c |-> KeptText(m[1].parts)]>>
    ELSE <<>>

\* mutant: a hidden node returns without descending
ChildrenToTraversePruned(node) ==
    IF Branch(node.message) = "hidden" THEN <<>> ELSE node.children

\* mutant: the children are taken last first
ChildrenToTraverseReversed(node) ==
    [i \in 1..Len(node.children) |-> node.children[Len(node.children) + 1 - i]]

\* for child_id in node.get('children', []): every path through traverse, the skipping
\* ones before their return and the others at the end, loops over all the children
ChildrenToTraverse(node) == node.children

\* mutant: the visited set is not consulted
SkipCallNoVisited(node_id, seen, map) == node_id \notin DOMAIN map

\* if node_id in visited or node_id not in mapping: return
SkipCall(node_id, seen, map) == node_id \in seen \/ node_id \notin DOMAIN map

\* for node_id, node in mapping.items(): if node.get('parent') is None: ... break
FindRoot(map, keys) ==
    LET roots == {i \in 1..Len(keys) : keys[i] \in DOMAIN map /\ map[keys[i]].parent = NoneVal}
    IN  IF roots = {} THEN NoneVal
        ELSE keys[CHOOSE i \in roots : \A j \in roots : i <= j]

RECURSIVE ChildAssignments(_, _)
\* the children lists of n nodes, in node order, of at most budget entries in all
ChildAssignments(n, budget) ==
    IF n = 0 THEN {<<>>}
    ELSE UNION { {<<cl>> \o rest : rest \in ChildAssignments(n - 1, budget - Len(cl))} :
                 cl \in SeqsUpTo(ChildIds, budget) }

\* the ids of a mapping of n nodes
IdsOf(n) == {NodeOrder[i] : i \in 1..n}

\* the position of an id in mapping-iteration order

NodeIndex(id) == CHOOSE k \in 1..Len(NodeOrder) : NodeOrder[k] = id

\* a mapping of graph shape: n nodes with children lists kids, the nodes of orphans
\* without a parent, the nodes of hid hidden, the other nodes plain messages
GraphMapping(n, kids, orphans, hid) ==
    [id \in IdsOf(n) |->
        [parent   |-> IF id \in orphans THEN NoneVal ELSE Dangling,
         children |-> kids[NodeIndex(id)],
         message  |-> IF id \in hid THEN <<HiddenMsg(id)>>
                      ELSE <<PlainMsg(IF id = "b" THEN "assistant" ELSE "user", id)>>]]

\* the root argument, the parentless nodes and the hidden nodes tried with each graph
\* shape: the root found as the first node, found past the first node, supplied,
\* not found, and supplied but not in the mapping
GraphVariants ==
    { [root |-> NoneVal,  orphans |-> {"a"},      hid |-> {}],
      [root |-> NoneVal,  orphans |-> {"a"},      hid |-> {"b"}],
      [root |-> NoneVal,  orphans |-> {"b", "c"}, hid |-> {}],
      [root |-> "b",      orphans |-> {"a"},      hid |-> {}],
      [root |-> NoneVal,  orphans |-> {},         hid |-> {}],
      [root |-> Dangling, orphans |-> {"a"},      hid |-> {}] }

\* a mapping of message shape: the chain a -> b -> c with payloads ma and mb on a and b
ChainMapping(ma, mb) ==
    [id \in IdsOf(3) |->
        [parent   |-> IF id = "a" THEN NoneVal ELSE IF id = "b" THEN "a" ELSE "b",
         children |-> IF id = "a" THEN <<"b">> ELSE IF id = "b" THEN <<"c">> ELSE <<>>,
         message  |-> IF id = "a" THEN ma ELSE IF id = "b" THEN mb
                      ELSE <<PlainMsg("assistant", "c")>>]]

TreeIdle ==
    /\ mapping = <<>>
    /\ root_node_id = NoneVal
    /\ messages = <<>>
    /\ visited = {}
    /\ stack = <<>>
    /\ callArg = NoneVal
    /\ pcTree = "idle"
    /\ order = <<>>

InitTree ==
    /\ \/ \E n \in 0..Len(NodeOrder) :
            \E kids \in ChildAssignments(n, MaxEdges), v \in GraphVariants :
                /\ mapping = GraphMapping(n, kids, IdsOf(n) \cap v.orphans,
                                          IdsOf(n) \cap v.hid)
                /\ root_node_id = v.root
       \/ \E ma \in {<<>>, <<PlainMsg("user", "a")>>},
             mb \in {<<>>} \cup {<<m>> : m \in MsgPayloads} :
                /\ mapping = ChainMapping(ma, mb)
                /\ root_node_id = NoneVal
    /\ messages = <<>>
    /\ visited = {}
    /\ stack = <<>>
    /\ callArg = NoneVal
    /\ pcTree = "start"
    /\ order = <<>>

\* extract_messages_from_mapping up to the call traverse(root_node_id)
TreeStart ==
    /\ pcTree = "start"
    /\ LET root == IF root_node_id = NoneVal THEN FindRoot(mapping, NodeOrder)
                   ELSE root_node_id
       IN  IF DOMAIN mapping = {} \/ root = NoneVal
           THEN pcTree' = "done" /\ callArg' = callArg
           ELSE pcTree' = "call" /\ callArg' = root
    /\ UNCHANGED <<mapping, root_node_id, messages, visited, stack, order>>
    /\ UNCHANGED <<packVars, normVars, mainVars, cleanVars>>

\* traverse(node_id), from its entry to its loop over the children
TraverseEnter ==
    /\ pcTree = "call"
    /\ IF SkipCall(callArg, visited, mapping)
       THEN /\ pcTree' = IF stack = <<>> THEN "done" ELSE "loop"
            /\ UNCHANGED <<messages, visited, stack, order>>
       ELSE /\ visited' = visited \cup {callArg}
            /\ order' = Append(order, callArg)
            /\ messages' = messages \o KeptOf(mapping[callArg].message)
            /\ stack' = <<[node |-> callArg, i |-> 1]>> \o stack
            /\ pcTree' = "loop"
    /\ callArg' = NoneVal
    /\ UNCHANGED <<mapping, root_node_id>>
    /\ UNCHANGED <<packVars, normVars, mainVars, cleanVars>>

\* for child_id in node.get('children', []): traverse(child_id)
TraverseChild ==
    /\ pcTree = "loop"
    /\ stack # <<>>
    /\ LET top  == Head(stack)
           kids == ChildrenToTraverse(mapping[top.node])
       IN  /\ top.i <= Len(kids)
           /\ callArg' = kids[top.i]
           /\ stack' = <<[top EXCEPT !.i = top.i + 1]>> \o Tail(stack)
    /\ pcTree' = "call"
    /\ UNCHANGED <<mapping, root_node_id, messages, visited, order>>
    /\ UNCHANGED <<packVars, normVars, mainVars, cleanVars>>

\* the loop over the children is over: traverse returns
TraverseReturn ==
    /\ pcTree = "loop"
    /\ stack # <<>>
    /\ LET top == Head(stack)
       IN  top.i > Len(ChildrenToTraverse(mapping[top.node]))
    /\ stack' = Tail(stack)
    /\ pcTree' = IF Tail(stack) = <<>> THEN "done" ELSE "loop"
    /\ UNCHANGED <<mapping, root_node_id, messages, visited, callArg, order>>
    /\ UNCHANGED <<packVars, normVars, mainVars, cleanVars>>

NextTree == TreeStart \/ TraverseEnter \/ TraverseChild \/ TraverseReturn

(***************************************************************************)
(* normalize_whitespace                                                    *)
(***************************************************************************)
\* bound: length of a message text handed to the normalizer
MaxLen == 5

\* bound: number of applications of normalize_whitespace
MaxPasses == 2

\* the characters of the texts tried
NormChars == {" ", "\n", "\t", "a"}

RECURSIVE CollapseRuns(_, _)
\* re.sub(ch{2,}, ch, s): every run of two or more ch becomes one ch
CollapseRuns(s, ch) ==
    IF Len(s) <= 1 THEN s
    ELSE IF s[1] = ch /\ s[2] = ch THEN CollapseRuns(Tail(s), ch)
    ELSE <<s[1]>> \o CollapseRuns(Tail(s), ch)

RECURSIVE SplitLines(_)
\* s.split('\n')
SplitLines(s) ==
    IF \A i \in 1..Len(s) : s[i] # "\n" THEN <<s>>
    ELSE LET i == CHOOSE k \in 1..Len(s) : s[k] = "\n" /\ \A j \in 1..(k - 1) : s[j] # "\n"
         IN  <<SubSeq(s, 1, i - 1)>> \o SplitLines(SubSeq(s, i + 1, Len(s)))

RECURSIVE JoinLines(_)
\* '\n'.join(lines)
JoinLines(lines) ==
    IF Len(lines) = 1 THEN lines[1]
    ELSE lines[1] \o <<"\n">> \o JoinLines(Tail(lines))

\* the three rewrites of one message content
NormalizeContent(content) ==
    LET spaces   == CollapseRuns(content, " ")
        newlines == CollapseRuns(spaces, "\n")
        lines    == SplitLines(newlines)
    IN  JoinLines([i \in 1..Len(lines) |-> Strip(lines[i])])

\* normalize_whitespace(data): every msg[1] of every conv['m'] is rewritten
NormalizeWhitespace(d) ==
    [k \in 1..Len(d) |->
        [d[k] EXCEPT !.m = [j \in 1..Len(d[k].m) |->
                               <<d[k].m[j][1], NormalizeContent(d[k].m[j][2])>>]]]

\* the texts extract_messages_from_mapping produces: stripped and not empty
KeptTexts == {t \in SeqsUpTo(NormChars, MaxLen) : t # <<>> /\ Strip(t) = t}

NormIdle ==
    /\ normData = <<>>
    /\ passes = 0

InitNorm ==
    /\ \E role \in {"u", "a"}, t \in KeptTexts : normData = <<[m |-> << <<role, t>> >>]>>
    /\ passes = 0

\* data = normalize_whitespace(data)
NormalizePass ==
    /\ passes < MaxPasses
    /\ normData' = NormalizeWhitespace(normData)
    /\ passes' = passes + 1
    /\ UNCHANGED <<packVars, treeVars, mainVars, cleanVars>>

NextNorm == NormalizePass

(***************************************************************************)
(* main                                                                    *)
(***************************************************************************)
\* bound: number of conversations of the input file
MaxConvs == 2

\* the reduction target, in percent
TargetPct == 90

\* a marker field: <<>> when absent, null or empty, else <<prefix, rest>>
IdValues == {<<>>, <<"g-p-", "A">>, <<"g-p-", "B">>, <<"g-", "A">>}

\* the conversations tried: the two marker fields, and the length of the minified form
MainConvs ==
    [gizmo_id : IdValues, conversation_template_id : IdValues \ {<<"g-", "A">>},
     chars : {8, 100004}]

\* id.startswith('g-p-'), for a non-empty id
StartsWithGP(id) == id # <<>> /\ id[1] = "g-p-"

\* the number of occurrences of v in list
CountOf(v, list) == Cardinality({i \in 1..Len(list) : list[i] = v})

\* Counter(list).most_common(1): <<>> for an empty list, else <<value, count>> of the
\* first value of the highest count
MostCommon(list) ==
    IF list = <<>> THEN <<>>
    ELSE LET best == CHOOSE i \in 1..Len(list) :
                        /\ \A j \in 1..Len(list) : CountOf(list[j], list) <= CountOf(list[i], list)
                        /\ \A j \in 1..(i - 1) : CountOf(list[j], list) < CountOf(list[i], list)
         IN  <<list[best], CountOf(list[best], list)>>

NoMarker == [type |-> NoneVal, value |-> <<>>]

\* identify_marker_pattern(conversations)
IdentifyMarkerPattern(convs) ==
    LET gizmo_ids    == SelectSeq([i \in 1..Len(convs) |-> convs[i].gizmo_id], StartsWithGP)
        template_ids == SelectSeq([i \in 1..Len(convs) |-> convs[i].conversation_template_id],
                                  StartsWithGP)
        g == MostCommon(gizmo_ids)
        t == MostCommon(template_ids)
    IN  IF g = <<>> /\ t = <<>> THEN NoMarker
        ELSE IF t = <<>> THEN [type |-> "gizmo_id", value |-> g[1]]
        ELSE IF g = <<>> THEN [type |-> "template_id", value |-> t[1]]
        ELSE IF t[2] > g[2] THEN [type |-> "template_id", value |-> t[1]]
        ELSE [type |-> "gizmo_id", value |-> g[1]]

\* identify_marker(conversations): the LLM fallback always declines
IdentifyMarker(convs) ==
    IF convs = <<>> THEN NoMarker ELSE IdentifyMarkerPattern(convs)

\* mutant: a missing marker is not noticed
MarkerMissingNever(mk) == FALSE

\* not marker_type or not marker_value
MarkerMissing(mk) == mk.type = NoneVal \/ mk.value = <<>>

\* if not marker_type or not marker_value: return [] (in filter_conversations)
FilterNoMarker(mk) == mk.type = NoneVal \/ mk.value = <<>>

\* mutant: each marker type is compared with the other type's field
MatchesSwapped(conv, mk) ==
    IF mk.type = "gizmo_id" THEN conv.conversation_template_id = mk.value
    ELSE IF mk.type = "template_id" THEN conv.gizmo_id = mk.value
    ELSE conv.gizmo_id = mk.value \/ conv.conversation_template_id = mk.value

\* the test of one conversation in the loop of filter_conversations
Matches(conv, mk) ==
    IF mk.type = "gizmo_id" THEN conv.gizmo_id = mk.value
    ELSE IF mk.type = "template_id" THEN conv.conversation_template_id = mk.value
    ELSE conv.gizmo_id = mk.value \/ conv.conversation_template_id = mk.value

\* what filter_conversations returns for the loaded conversations
FilterConversations(convs, mk) ==
    IF FilterNoMarker(mk) THEN <<>>
    ELSE LET Keep(conv) == Matches(conv, mk) IN SelectSeq(convs, Keep)

FilteredFile == <<"therapy_conversations.json", 0>>
CleanedFile  == <<"therapy_conversations_cleaned.json", 0>>
FinalFile    == <<"therapy_conversations_final.json", 0>>
ChunkFile(i) == <<"therapy_chunk", i>>

\* mutant: the filtered file is written whatever was found
FilterWritesAlways(therapy) == {FilteredFile}

\* the files filter_conversations writes: none when nothing matched
FilterWrites(therapy) == IF therapy = <<>> THEN {} ELSE {FilteredFile}

\* len(json.dumps(list, separators=(',', ':'))) of a list of items of the given lengths
RECURSIVE SumChars(_)
SumChars(d) == IF d = <<>> THEN 0 ELSE Head(d).chars + SumChars(Tail(d))

ListChars(d) == 2 + SumChars(d) + (IF Len(d) > 1 THEN Len(d) - 1 ELSE 0)

\* reduction_pct >= 90, reduction_pct = (original - final) / original * 100
MeetsTarget(original, final) ==
    IF original > 0 THEN (original - final) * 100 >= TargetPct * original
    ELSE 0 >= TargetPct

JsonFile(convs) == [state |-> "json", convs |-> convs]
MissingFile == [state |-> "missing", convs |-> <<>>]
InvalidFile == [state |-> "invalid", convs |-> <<>>]

\* the stages inside the try block of main
TryStages == {"load", "identify", "filter", "clean", "minify", "chunk", "summary"}

MainIdle ==
    /\ pcMain = "idle"
    /\ input_file = MissingFile
    /\ rewritten = FALSE
    /\ original_size = 0
    /\ all_conversations = <<>>
    /\ marker = NoMarker
    /\ filter_all = <<>>
    /\ therapy_conversations = <<>>
    /\ final_data = <<>>
    /\ final_size = 0
    /\ files = {}
    /\ ran = <<>>
    /\ warned = FALSE
    /\ cause = NoneVal
    /\ exit_code = 0

InitMain ==
    /\ pcMain = "start"
    /\ \/ input_file \in {MissingFile, InvalidFile}
       \/ \E convs \in SeqsUpTo(MainConvs, MaxConvs) : input_file = JsonFile(convs)
    /\ rewritten = FALSE
    /\ original_size = 0
    /\ all_conversations = <<>>
    /\ marker = NoMarker
    /\ filter_all = <<>>
    /\ therapy_conversations = <<>>
    /\ final_data = <<>>
    /\ final_size = 0
    /\ files = {}
    /\ ran = <<>>
    /\ warned = FALSE
    /\ cause = NoneVal
    /\ exit_code = 0

\* sys.exit(1) from the branch named why
Exit1(why) ==
    /\ pcMain' = "exit"
    /\ exit_code' = 1
    /\ cause' = why

\* if not os.path.exists(input_file): sys.exit(1); original_size = os.path.getsize(...)
MainCheckExists ==
    /\ pcMain = "start"
    /\ IF input_file.state = "missing"
       THEN Exit1("missing") /\ UNCHANGED original_size
       ELSE /\ pcMain' = "load"
            /\ original_size' \in {100, 2000000}
            /\ UNCHANGED <<cause, exit_code>>
    /\ UNCHANGED <<input_file, rewritten, all_conversations, marker, filter_all,
                   therapy_conversations, final_data, final_size, files, ran, warned>>
    /\ UNCHANGED <<packVars, treeVars, normVars, cleanVars>>

\* with open(input_file) as f: all_conversations = json.load(f)
MainLoad ==
    /\ pcMain = "load"
    /\ IF input_file.state = "invalid"
       THEN Exit1("invalid_json") /\ UNCHANGED all_conversations
       ELSE /\ all_conversations' = input_file.convs
            /\ pcMain' = "identify"
            /\ UNCHANGED <<cause, exit_code>>
    /\ UNCHANGED <<input_file, rewritten, original_size, marker, filter_all,
                   therapy_conversations, final_data, final_size, files, ran, warned>>
    /\ UNCHANGED <<packVars, treeVars, normVars, cleanVars>>

\* marker_type, marker_value = identify_marker(all_conversations); exit if none
MainIdentify ==
    /\ pcMain = "identify"
    /\ marker' = IdentifyMarker(all_conversations)
    /\ ran' = Append(ran, "identify")
    /\ IF MarkerMissing(marker')
       THEN Exit1("no_marker")
       ELSE pcMain' = "filter" /\ UNCHANGED <<cause, exit_code>>
    /\ UNCHANGED <<input_file, rewritten, original_size, all_conversations, filter_all,
                   therapy_conversations, final_data, final_size, files, warned>>
    /\ UNCHANGED <<packVars, treeVars, normVars, cleanVars>>

\* another process changes the input file between the two reads of it
EnvRewrite ==
    /\ pcMain = "filter"
    /\ ~rewritten
    /\ input_file' \in ({MissingFile, InvalidFile, JsonFile(<<>>)}
                         \cup (IF input_file.convs = <<>> THEN {}
                               ELSE {JsonFile(Tail(input_file.convs))})) \ {input_file}
    /\ rewritten' = TRUE
    /\ UNCHANGED <<pcMain, original_size, all_conversations, marker, filter_all,
                   therapy_conversations, final_data, final_size, files, ran, warned,
                   cause, exit_code>>
    /\ UNCHANGED <<packVars, treeVars, normVars, cleanVars>>

\* therapy_conversations = filter_conversations(...); if not therapy_conversations: exit
MainFilter ==
    /\ pcMain = "filter"
    /\ ran' = Append(ran, "filter")
    /\ IF input_file.state = "missing"
       THEN Exit1("missing") /\ UNCHANGED <<filter_all, therapy_conversations, files>>
       ELSE IF input_file.state = "invalid"
       THEN Exit1("invalid_json") /\ UNCHANGED <<filter_all, therapy_conversations, files>>
       ELSE /\ filter_all' = input_file.convs
            /\ therapy_conversations' = FilterConversations(filter_all', marker)
            /\ files' = files \cup FilterWrites(therapy_conversations')
            /\ IF therapy_conversations' = <<>>
               THEN Exit1("empty_filter")
               ELSE pcMain' = "clean" /\ UNCHANGED <<cause, exit_code>>
    /\ UNCHANGED <<input_file, rewritten, original_size, all_conversations, marker,
                   final_data, final_size, warned>>
    /\ UNCHANGED <<packVars, treeVars, normVars, cleanVars>>

\* cleaned_data, cleaned_size = clean_conversations(filtered_file, cleaned_file)
MainClean ==
    /\ pcMain = "clean"
    /\ ran' = Append(ran, "clean")
    /\ files' = files \cup {CleanedFile}
    /\ pcMain' = "minify"
    /\ UNCHANGED <<input_file, rewritten, original_size, all_conversations, marker,
                   filter_all, therapy_conversations, final_data, final_size, warned,
                   cause, exit_code>>
    /\ UNCHANGED <<packVars, treeVars, normVars, cleanVars>>

\* final_data, final_size = apply_minification_techniques(cleaned_file, minified_file)
MainMinify ==
    /\ pcMain = "minify"
    /\ ran' = Append(ran, "minify")
    /\ final_data' = [i \in 1..Len(therapy_conversations) |->
                         [id |-> i, chars |-> therapy_conversations[i].chars]]
    /\ final_size' = ListChars(final_data')
    /\ files' = files \cup {FinalFile}
    /\ pcMain' = "chunk"
    /\ UNCHANGED <<input_file, rewritten, original_size, all_conversations, marker,
                   filter_all, therapy_conversations, warned, cause, exit_code>>
    /\ UNCHANGED <<packVars, treeVars, normVars, cleanVars>>

\* chunk_files = split_into_chunks(final_data, tokens_per_chunk=25000, ...)
MainChunk ==
    /\ pcMain = "chunk"
    /\ ran' = Append(ran, "chunk")
    /\ files' = files \cup {ChunkFile(i) :
                              i \in 1..Len(SplitIntoChunks(final_data, TokensPerChunk))}
    /\ pcMain' = "summary"
    /\ UNCHANGED <<input_file, rewritten, original_size, all_conversations, marker,
                   filter_all, therapy_conversations, final_data, final_size, warned,
                   cause, exit_code>>
    /\ UNCHANGED <<packVars, treeVars, normVars, cleanVars>>

\* if reduction_pct >= 90: ... else: print warning; main returns
MainSummary ==
    /\ pcMain = "summary"
    /\ warned' = ~MeetsTarget(original_size, final_size)
    /\ pcMain' = "exit"
    /\ UNCHANGED <<input_file, rewritten, original_size, all_conversations, marker,
                   filter_all, therapy_conversations, final_data, final_size, files, ran,
                   cause, exit_code>>
    /\ UNCHANGED <<packVars, treeVars, normVars, cleanVars>>

\* a stage raises (an I/O error, a value of an unexpected type): except Exception
MainRaise ==
    /\ pcMain \in TryStages
    /\ Exit1("exception")
    /\ UNCHANGED <<input_file, rewritten, original_size, all_conversations, marker,
                   filter_all, therapy_conversations, final_data, final_size, files, ran,
                   warned>>
    /\ UNCHANGED <<packVars, treeVars, normVars, cleanVars>>

NextMain ==
    \/ MainCheckExists \/ MainLoad \/ MainIdentify \/ EnvRewrite \/ MainFilter
    \/ MainClean \/ MainMinify \/ MainChunk \/ MainSummary \/ MainRaise

(***************************************************************************)
(* clean_conversation                                                      *)
(***************************************************************************)
\* the create_time values tried; <<>> is conv.get('create_time') returning None (the
\* key missing or null), <<n>> the epoch timestamp n in seconds
CreateTimes == {<<>>, <<0>>, <<1>>, <<86399>>, <<1700000000>>, <<1709251199>>}

\* the local time zones tried, as seconds east of UTC
UtcOffsets == {0 - 18000, 0, 19800}

\* the title values tried; <<>> is the key missing, <<NoneVal>> a null title
Titles == {<<>>, <<NoneVal>>, <<"">>, <<"Session 1">>}

\* the calendar date of day number days, counted from 1970-01-01, in the proleptic
\* Gregorian calendar that datetime uses
CivilFromDays(days) ==
    LET z   == days + 719468
        era == z \div 146097
        doe == z - era * 146097
        yoe == (doe - doe \div 1460 + doe \div 36524 - doe \div 146096) \div 365
        doy == doe - (365 * yoe + yoe \div 4 - yoe \div 100)
        mp  == (5 * doy + 2) \div 153
        dd  == doy - (153 * mp + 2) \div 5 + 1
        mm  == IF mp < 10 THEN mp + 3 ELSE mp - 9
        yy  == yoe + era * 400 + (IF mm <= 2 THEN 1 ELSE 0)
    IN  [Y |-> yy, m |-> mm, d |-> dd]

\* datetime.fromtimestamp(create_time).strftime('%Y-%m-%d'): the date of the
\* timestamp in local time; the string is the three fields, zero padded
DateStr(create_time, offset) == CivilFromDays((create_time + offset) \div 86400)

\* if create_time: python's truth test, false for None and for 0
Truthy(create_time) == create_time # <<>> /\ create_time[1] # 0

\* if not cleaned.get('tt'): false for None and for ''
TruthyTitle(title) == title \notin {NoneVal, ""}

RECURSIVE Traverse(_, _, _)
\* traverse: the messages appended by the calls still to make, todo, given the
\* visited set seen
Traverse(map, todo, seen) ==
    IF todo = <<>> THEN <<>>
    ELSE IF SkipCall(Head(todo), seen, map) THEN Traverse(map, Tail(todo), seen)
    ELSE KeptOf(map[Head(todo)].message)
         \o Traverse(map, ChildrenToTraverse(map[Head(todo)]) \o Tail(todo),
                     seen \cup {Head(todo)})

\* extract_messages_from_mapping(mapping), the root not supplied
ExtractMessagesFromMapping(map) ==
    IF DOMAIN map = {} THEN <<>>
    ELSE LET root == FindRoot(map, NodeOrder)
         IN  IF root = NoneVal THEN <<>> ELSE Traverse(map, <<root>>, {})

\* clean_conversation(conv) in the time zone offset: <<>> in d or tt is the key deleted
CleanConversation(c, offset) ==
    LET date_str == IF Truthy(c.create_time)
                    THEN <<DateStr(c.create_time[1], offset)>> ELSE <<>>
        title    == IF c.title = <<>> THEN "" ELSE c.title[1]
    IN  [d  |-> date_str,
         tt |-> IF TruthyTitle(title) THEN <<title>> ELSE <<>>,
         m  |-> ExtractMessagesFromMapping(c.mapping)]

CleanIdle ==
    /\ convIn = NoneVal
    /\ utc_offset = 0
    /\ cleaned = NoneVal
    /\ pcClean = "idle"

InitClean ==
    /\ \E create_time \in CreateTimes, title \in Titles :
          \/ convIn = [create_time |-> create_time, title |-> title, mapping |-> <<>>]
          \/ \E ma \in {<<>>, <<PlainMsg("user", "a")>>},
                mb \in {<<>>, <<HiddenMsg("b")>>, <<PlainMsg("assistant", "b")>>} :
                convIn = [create_time |-> create_time, title |-> title,
                        mapping |-> ChainMapping(ma, mb)]
    /\ utc_offset \in UtcOffsets
    /\ cleaned = NoneVal
    /\ pcClean = "start"

\* cleaned = clean_conversation(conv)
CleanCall ==
    /\ pcClean = "start"
    /\ cleaned' = CleanConversation(convIn, utc_offset)
    /\ pcClean' = "done"
    /\ UNCHANGED <<convIn, utc_offset>>
    /\ UNCHANGED <<packVars, treeVars, normVars, mainVars>>

NextClean == CleanCall

(***************************************************************************)
(* Specifications                                                          *)
(***************************************************************************)
InitPackSpec == InitPack /\ TreeIdle /\ NormIdle /\ MainIdle /\ CleanIdle

InitTreeSpec == InitTree /\ PackIdle /\ NormIdle /\ MainIdle /\ CleanIdle

InitNormSpec == InitNorm /\ PackIdle /\ TreeIdle /\ MainIdle /\ CleanIdle

InitMainSpec == InitMain /\ PackIdle /\ TreeIdle /\ NormIdle /\ CleanIdle

InitCleanSpec == InitClean /\ PackIdle /\ TreeIdle /\ NormIdle /\ MainIdle

SpecPack == InitPackSpec /\ [][NextPack]_vars

SpecTree == InitTreeSpec /\ [][NextTree]_vars

\* traverse is a sequential computation: it takes its next step
FairSpecTree == SpecTree /\ WF_vars(NextTree)

SpecNorm == InitNormSpec /\ [][NextNorm]_vars

SpecMain == InitMainSpec /\ [][NextMain]_vars

SpecClean == InitCleanSpec /\ [][NextClean]_vars

(***************************************************************************)
(* Properties of split_into_chunks                                         *)
(***************************************************************************)
\* the costs of the records of a sequence
CostsOf(recs) == [i \in 1..Len(recs) |-> ConvTokens(recs[i])]

\* the lengths of the groups
GroupLens(cs) == [j \in 1..Len(cs) |-> Len(cs[j])]

\* C1: packer totality. While the loop runs, the closed groups followed by the open
\* group are exactly the records consumed so far; when it is over, the groups
\* concatenated in order are exactly the input: nothing dropped, duplicated,
\* reordered or split.
C1_PackerTotality ==
    /\ pcPack = "loop" => Flatten(chunks) \o current_chunk = SubSeq(data, 1, pos - 1)
    /\ pcPack = "done" => Flatten(chunks) = data

\* three records came out as two groups
C1_Witness ==
    /\ pcPack = "done"
    /\ Len(data) = 3
    /\ GroupLens(chunks) = <<2, 1>>

\* C2: every group is non-empty and either costs at most the capacity or is one
\* record that alone exceeds it; a record that alone exceeds the capacity is in the
\* output, as the only member of its group, wherever it stands in the input.
C2_GroupsBounded ==
    pcPack = "done" =>
        /\ \A j \in 1..Len(chunks) :
              /\ chunks[j] # <<>>
              /\ \/ Cost(chunks[j]) <= tokens_per_chunk
                 \/ Len(chunks[j]) = 1 /\ ConvTokens(chunks[j][1]) > tokens_per_chunk
        /\ \A i \in 1..Len(data) :
              ConvTokens(data[i]) > tokens_per_chunk =>
                  Cardinality({j \in 1..Len(chunks) : chunks[j] = <<data[i]>>}) = 1

\* an oversized record between two records that fit
C2_Witness ==
    /\ pcPack = "done"
    /\ Len(data) = 3
    /\ ConvTokens(data[1]) <= tokens_per_chunk
    /\ ConvTokens(data[2]) > tokens_per_chunk
    /\ ConvTokens(data[3]) <= tokens_per_chunk
    /\ chunks = << <<data[1]>>, <<data[2]>>, <<data[3]>> >>

\* C3: the greedy boundary rule. Inside a group, the cost accumulated before a record
\* plus the record's cost is at most the capacity (exactly the capacity included);
\* between two consecutive groups, the cost of the earlier one plus the cost of the
\* first record of the later one exceeds the capacity. Costs [10,10,10] under
\* capacity 15 give three groups of one, [5,5,5] one group of three, [100] one group.
C3_GreedyBoundary ==
    pcPack = "done" =>
        /\ \A j \in 1..Len(chunks) : \A p \in 1..Len(chunks[j]) :
              /\ p > 1 => Cost(SubSeq(chunks[j], 1, p - 1)) + ConvTokens(chunks[j][p])
                              <= tokens_per_chunk
              /\ (p = 1 /\ j > 1) =>
                     Cost(chunks[j - 1]) + ConvTokens(chunks[j][1]) > tokens_per_chunk
        /\ (tokens_per_chunk = 15 /\ CostsOf(data) = <<10, 10, 10>>)
               => GroupLens(chunks) = <<1, 1, 1>>
        /\ (tokens_per_chunk = 15 /\ CostsOf(data) = <<5, 5, 5>>)
               => GroupLens(chunks) = <<3>>
        /\ (tokens_per_chunk = 15 /\ CostsOf(data) = <<100>>)
               => GroupLens(chunks) = <<1>>

\* a group filled to exactly the capacity, then a boundary
C3_Witness ==
    /\ pcPack = "done"
    /\ tokens_per_chunk = 15
    /\ CostsOf(data) = <<5, 10, 5>>
    /\ GroupLens(chunks) = <<2, 1>>

(***************************************************************************)
(* Properties of extract_messages_from_mapping                             *)
(***************************************************************************)
\* the root the traversal starts from: the supplied one, else the first node in
\* mapping order without a parent, else none
ResolvedRoot ==
    IF root_node_id # NoneVal THEN root_node_id
    ELSE IF \E id \in DOMAIN mapping : mapping[id].parent = NoneVal
    THEN LET i == CHOOSE k \in 1..Len(NodeOrder) :
                     /\ NodeOrder[k] \in DOMAIN mapping
                     /\ mapping[NodeOrder[k]].parent = NoneVal
                     /\ \A j \in 1..(k - 1) : NodeOrder[j] \in DOMAIN mapping
                            => mapping[NodeOrder[j]].parent # NoneVal
         IN  NodeOrder[i]
    ELSE NoneVal

\* the ids a node lists as children
KidSet(id) == {mapping[id].children[i] : i \in 1..Len(mapping[id].children)}

RECURSIVE Closure(_)
\* the nodes of the mapping reachable from the nodes of S through children lists
Closure(S) ==
    LET more == S \cup ((UNION {KidSet(id) : id \in S}) \cap DOMAIN mapping)
    IN  IF more = S THEN S ELSE Closure(more)

\* the nodes reachable from the resolved root
Reachable == Closure({ResolvedRoot} \cap DOMAIN mapping)

\* the position of a node in the order of entry
PosIn(seq, id) == CHOOSE k \in 1..Len(seq) : seq[k] = id

\* no value occurs twice
NoDuplicates(seq) == \A i, j \in 1..Len(seq) : seq[i] = seq[j] => i = j

\* no node is entered twice
NoReentry ==
    /\ NoDuplicates(order)
    /\ visited = {order[i] : i \in 1..Len(order)}
    /\ visited \subseteq Reachable

\* at the end every reachable node that has a message to keep has it in the result
\* exactly once, and the result holds nothing else
EmittedOnce ==
    pcTree = "done" =>
        /\ visited = Reachable
        /\ \A id \in Reachable :
              LET kept == KeptOf(mapping[id].message)
              IN  kept # <<>> =>
                      Cardinality({k \in 1..Len(messages) : messages[k] = kept[1]}) = 1
        /\ Len(messages) = Cardinality({id \in Reachable : KeptOf(mapping[id].message) # <<>>})

\* C4: cycle safety. Whatever the children lists (a descendant listing an ancestor,
\* a node listed by several nodes or several times), no node is entered twice, the
\* traversal terminates, and each reachable message is in the result exactly once.
C4_CycleSafety == []NoReentry /\ []EmittedOnce /\ <>(pcTree = "done")

\* a cycle a -> b -> a whose nodes both also list c
C4_Witness ==
    /\ pcTree = "done"
    /\ DOMAIN mapping = {"a", "b", "c"}
    /\ mapping["a"].children = <<"b", "c">>
    /\ mapping["b"].children = <<"a">>
    /\ mapping["c"].children = <<>>
    /\ order = <<"a", "b", "c">>
    /\ Len(messages) = 3

\* the chain a -> b -> c with a bare root, a hidden b and a visible c
HiddenChain ==
    /\ DOMAIN mapping = {"a", "b", "c"}
    /\ root_node_id = NoneVal
    /\ mapping["a"].children = <<"b">> /\ mapping["a"].message = <<>>
    /\ mapping["a"].parent = NoneVal
    /\ mapping["b"].children = <<"c">> /\ mapping["b"].message # <<>>
    /\ mapping["b"].message[1].hidden
    /\ mapping["c"].children = <<>> /\ mapping["c"].message = <<PlainMsg("assistant", "c")>>

\* C5: skip-but-descend. Every node reachable from the resolved root through
\* children lists is visited, whatever the nodes on the way keep or skip; the chain
\* bare root, hidden child, visible grandchild gives the grandchild's message alone;
\* without a supplied root and without a parentless node nothing is visited.
C5_SkipButDescend ==
    pcTree = "done" =>
        /\ visited = Reachable
        /\ \A id \in visited : KidSet(id) \cap DOMAIN mapping \subseteq visited
        /\ HiddenChain => messages = <<[r |-> "a", c |-> <<"c">>]>>
        /\ (root_node_id = NoneVal /\ \A id \in DOMAIN mapping : mapping[id].parent # NoneVal)
               => (messages = <<>> /\ visited = {})

\* the hidden chain was walked to its end
C5_Witness ==
    /\ pcTree = "done"
    /\ HiddenChain
    /\ order = <<"a", "b", "c">>
    /\ Len(messages) = 1

\* a first part that is empty (an empty string, null, an empty structure) or, as text,
\* blank
BlankPart(part) == ~part.truthy \/ Strip(part.text) = <<>>

\* the condition under which a node contributes a message
ShouldEmit(m) ==
    /\ m # <<>>
    /\ ~m[1].hidden
    /\ m[1].role \in {"user", "assistant"}
    /\ m[1].keys = {}
    /\ m[1].parts # <<>>
    /\ ~BlankPart(m[1].parts[1])

\* the message it contributes
Emitted(m) ==
    IF ShouldEmit(m)
    THEN <<[r |-> IF m[1].role = "user" THEN "u" ELSE "a", c |-> Strip(m[1].parts[1].text)]>>
    ELSE <<>>

\* a user message of parts ["h", "w"]
TwoParts ==
    <<[role |-> "user", hidden |-> FALSE, keys |-> {},
       parts |-> <<StrPart(<<"h">>), StrPart(<<"w">>)>>]>>

\* C6: the emission predicate. The result is, in the order of entry, one message for
\* each visited node that has a message payload, is not hidden, has role user or
\* assistant, has neither user_profile nor user_instructions in its content and has
\* a first part that is not blank; the message has role u or a and the trimmed first
\* part as text. Parts ["h", "w"] give text "h"; no parts give nothing.
C6_EmissionPredicate ==
    /\ messages = Flatten([i \in 1..Len(order) |-> Emitted(mapping[order[i]].message)])
    /\ Emitted(TwoParts) = <<[r |-> "u", c |-> <<"h">>]>>
    /\ \A id \in visited :
          /\ mapping[id].message = TwoParts
                 => \E k \in 1..Len(messages) : messages[k] = [r |-> "u", c |-> <<"h">>]
          /\ (mapping[id].message # <<>> /\ mapping[id].message[1].parts = <<>>)
                 => KeptOf(mapping[id].message) = <<>>

\* a node of two parts was kept with the first part as its text
C6_Witness ==
    /\ pcTree = "done"
    /\ DOMAIN mapping = {"a", "b", "c"}
    /\ mapping["b"].message = TwoParts
    /\ mapping["a"].message = <<>>
    /\ messages = <<[r |-> "u", c |-> <<"h">>], [r |-> "a", c |-> <<"c">>]>>

RECURSIVE PreOrderFrom(_, _)
\* depth-first pre-order: the first of todo, then its children, then the rest of todo,
\* a node counting at its first occurrence only
PreOrderFrom(todo, seen) ==
    IF todo = <<>> THEN <<>>
    ELSE LET id == Head(todo)
         IN  IF id \in seen \/ id \notin DOMAIN mapping
             THEN PreOrderFrom(Tail(todo), seen)
             ELSE <<id>> \o PreOrderFrom(mapping[id].children \o Tail(todo), seen \cup {id})

\* the mapping is a tree below the resolved root: no reachable node is listed twice
IsTree ==
    /\ \A id \in Reachable : NoDuplicates(mapping[id].children)
    /\ \A id1, id2 \in Reachable : id1 # id2 => KidSet(id1) \cap KidSet(id2) = {}
    /\ \A id \in Reachable : ResolvedRoot \notin KidSet(id)

\* C7: depth-first pre-order. The nodes are entered, and so their messages kept, in
\* the depth-first pre-order of the mapping from the resolved root, children in
\* listed order, a node reachable by several paths at its first occurrence. In a
\* tree a node precedes every node of its subtree, and the whole subtree of an
\* earlier-listed child precedes the whole subtree of a later-listed one.
C7_PreOrder ==
    pcTree = "done" =>
        /\ order = PreOrderFrom(IF ResolvedRoot = NoneVal \/ DOMAIN mapping = {}
                                THEN <<>> ELSE <<ResolvedRoot>>, {})
        /\ messages = Flatten([i \in 1..Len(order) |-> KeptOf(mapping[order[i]].message)])
        /\ IsTree =>
              \A id \in Reachable :
                 /\ \A sub \in Closure(KidSet(id) \cap DOMAIN mapping) :
                       PosIn(order, id) < PosIn(order, sub)
                 /\ \A i, j \in 1..Len(mapping[id].children) :
                       (i < j /\ mapping[id].children[i] \in DOMAIN mapping
                              /\ mapping[id].children[j] \in DOMAIN mapping) =>
                          \A x \in Closure({mapping[id].children[i]}),
                             y \in Closure({mapping[id].children[j]}) :
                                PosIn(order, x) < PosIn(order, y)

\* the grandchild d under b is entered before b's later sibling c
C7_Witness ==
    /\ pcTree = "done"
    /\ DOMAIN mapping = {"a", "b", "c", "d"}
    /\ mapping["a"].children = <<"b", "c">>
    /\ mapping["b"].children = <<"d">>
    /\ order = <<"a", "b", "d", "c">>
    /\ Len(messages) = 4
    /\ messages[3].c = <<"d">>

(***************************************************************************)
(* Properties of normalize_whitespace                                      *)
(***************************************************************************)
\* C8: idempotence. Once normalize_whitespace has been applied, applying it again
\* changes nothing.
C8_Idempotent == passes >= 1 => NormalizeWhitespace(normData) = normData

(***************************************************************************)
(* Properties of main                                                      *)
(***************************************************************************)
AllStages == <<"identify", "filter", "clean", "minify", "chunk">>

\* filter_conversations was entered and returned nothing
FilterCameBackEmpty ==
    /\ Len(ran) >= 2
    /\ therapy_conversations = <<>>

\* C9: empty marker match. When filter_conversations comes back with nothing, the
\* run has ended with exit code 1, the filtered file was not written, and no later
\* stage ran or wrote a file.
C9_EmptyFilterAborts ==
    FilterCameBackEmpty =>
        /\ pcMain = "exit"
        /\ exit_code = 1
        /\ files = {}
        /\ ran = <<"identify", "filter">>
        /\ ~ENABLED NextMain

\* a marker was identified, and the file read by the filter holds conversations, none
\* of which carries it
C9_Witness ==
    /\ pcMain = "exit"
    /\ cause = "empty_filter"
    /\ marker.type # NoneVal
    /\ filter_all # <<>>
    /\ \A i \in 1..Len(filter_all) :
          /\ filter_all[i].gizmo_id # marker.value
          /\ filter_all[i].conversation_template_id # marker.value
    /\ files = {}

\* the files a run that got through all stages has written
FilesOfRun ==
    {FilteredFile, CleanedFile, FinalFile}
        \cup {ChunkFile(i) : i \in 1..Len(SplitIntoChunks(final_data, TokensPerChunk))}

\* C10: exit codes. A run that has ended has exit code 1 exactly when the input file
\* was missing, was not valid JSON, gave no marker, gave an empty filter result, or a
\* stage raised; the stages that ran are then the ones up to the failure and no
\* stage after it wrote a file. Otherwise the exit code is 0, the five stages ran in
\* order, and whether the reduction target was missed decides the warning only.
C10_ExitCodes ==
    pcMain = "exit" =>
        /\ exit_code \in {0, 1}
        /\ exit_code = 1 <=>
              cause \in {"missing", "invalid_json", "no_marker", "empty_filter", "exception"}
        /\ exit_code = 0 <=> cause = NoneVal
        /\ cause = "missing" =>
              input_file.state = "missing" /\ ran \in {<<>>, <<"identify", "filter">>}
        /\ cause = "invalid_json" =>
              input_file.state = "invalid" /\ ran \in {<<>>, <<"identify", "filter">>}
        /\ cause = "no_marker" =>
              /\ marker.type = NoneVal \/ marker.value = <<>>
              /\ ran = <<"identify">>
        /\ cause = "empty_filter" =>
              /\ marker.type # NoneVal /\ marker.value # <<>>
              /\ therapy_conversations = <<>>
              /\ ran = <<"identify", "filter">>
        /\ exit_code = 1 =>
              /\ Len(ran) <= Len(AllStages)
              /\ ran = SubSeq(AllStages, 1, Len(ran))
              /\ ~warned
              /\ (Len(ran) <= 2 /\ therapy_conversations = <<>>) => files = {}
              /\ files \subseteq FilesOfRun
              /\ CleanedFile \in files => Len(ran) >= 3
              /\ FinalFile \in files => Len(ran) >= 4
              /\ (\E i \in 1..MaxConvs + 1 : ChunkFile(i) \in files) => Len(ran) >= 5
        /\ exit_code = 0 =>
              /\ ran = AllStages
              /\ input_file.state = "json"
              /\ marker.type # NoneVal /\ marker.value # <<>>
              /\ marker = IdentifyMarker(all_conversations)
              /\ therapy_conversations # <<>>
              /\ files = FilesOfRun
              /\ warned <=> ~((original_size - final_size) * 100 >= 90 * original_size)
        /\ ~ENABLED NextMain

\* a run that missed the reduction target ended with the warning and exit code 0
C10_Witness ==
    /\ pcMain = "exit"
    /\ exit_code = 0
    /\ warned
    /\ ran = AllStages

\* C11: the condensed conversation has a date exactly when the conversation's
\* create_time was set, whatever the timestamp, 0 included
C11_DateIffCreateTime ==
    pcClean = "done" => (cleaned.d # <<>> <=> convIn.create_time # <<>>)

\* the field of a conversation that a marker of the given type is read from
FieldOfType(c, type) ==
    IF type = "gizmo_id" THEN c.gizmo_id ELSE c.conversation_template_id

\* the tally identify_marker_pattern made for the type of the marker it returned:
\* <<value, count>> of the most common prefixed value of that type
TallyOf(convs, mk) ==
    MostCommon(SelectSeq([i \in 1..Len(convs) |-> FieldOfType(convs[i], mk.type)],
                         StartsWithGP))

\* the conversations whose field of the marker's type equals the marker's value, in
\* input order
Carrying(convs, mk) ==
    LET Carries(c) == FieldOfType(c, mk.type) = mk.value
    IN  SelectSeq(convs, Carries)

\* filter_conversations ran on the input main identified the marker from
FilteredSameInput ==
    /\ Len(ran) >= 2
    /\ ~rewritten

\* C12: when a marker was identified and filter_conversations ran on the same,
\* unchanged input, its result is not empty: it is exactly the conversations whose
\* field of the identified type equals the identified value, in input order, as many
\* as the tally counted for that value; the run did not end on the empty-filter error.
C12_FilterOfIdentifiedMarker ==
    FilteredSameInput =>
        /\ marker.type \in {"gizmo_id", "template_id"}
        /\ filter_all = all_conversations
        /\ therapy_conversations # <<>>
        /\ therapy_conversations = Carrying(all_conversations, marker)
        /\ TallyOf(all_conversations, marker) = <<marker.value, Len(therapy_conversations)>>
        /\ cause # "empty_filter"

\* a template marker was identified from two conversations and the filter, on the
\* unchanged input, selected the one that carries it
C12_Witness ==
    /\ FilteredSameInput
    /\ marker.type = "template_id"
    /\ Len(all_conversations) = 2
    /\ Len(therapy_conversations) = 1
    /\ therapy_conversations[1] = all_conversations[2]

=============================================================================
